---- MODULE Spec2Model ----
(***************************************************************************)
(* A model of half-life's configuration store (cmd/config.go): the closed  *)
(* AlertType enumeration and its YAML decoder, AlertConfig.AlertActive,    *)
(* HalfLifeConfig.getUnsetDefaults, and saveConfig, which the validator    *)
(* monitor goroutines call under one process-wide mutex.                   *)
(*                                                                         *)
(* Three state machines share the variables:                               *)
(*   Spec / FairSpec  the monitor goroutines storing their status message  *)
(*                    handle and calling saveConfig concurrently;          *)
(*   LoadSpec         one goroutine: load, getUnsetDefaults, saveConfig,   *)
(*                    reload, getUnsetDefaults;                            *)
(*   AlertSpec        decoding alerts.ignore-alerts and querying           *)
(*                    AlertActive.                                         *)
(***************************************************************************)
EXTENDS Integers, Sequences, FiniteSets, TLC

VARIABLES
    config,            \* the shared in-memory *HalfLifeConfig
    file,              \* content of ./config.yaml, a sequence of chunks
    writeConfigMutex,  \* the set of tasks that hold the mutex: empty when unlocked
    pc,                \* per task: its position in the monitor / saveConfig
    yamlBytes,         \* per task: saveConfig's local yamlBytes
    printed,           \* per task: the errors saveConfig printed
    published,         \* the tasks whose store of the handle the others see
    before,            \* per task: the file as it was when saveConfig locked
    lPc,               \* LoadSpec: position of the load pipeline
    lEff,              \* LoadSpec: thresholds after the first defaulting pass
    rawAlerts,         \* AlertSpec: the strings of alerts.ignore-alerts
    aPc,               \* AlertSpec: position of the decoder / query
    alertConfig,       \* AlertSpec: AlertConfig.IgnoreAlerts being built
    atCall,            \* AlertSpec: the last UnmarshalYAML call
    activeCall         \* AlertSpec: the last AlertActive call

vars == <<config, file, writeConfigMutex, pc, yamlBytes, printed, published, before,
          lPc, lEff, rawAlerts, aPc, alertConfig, atCall, activeCall>>

saveVars == <<config, file, writeConfigMutex, pc, yamlBytes, printed, published, before>>
loadVars == <<lPc, lEff>>
alertVars == <<rawAlerts, aPc, alertConfig, atCall, activeCall>>

(***************************************************************************)
(* Bounds of the model.                                                    *)
(***************************************************************************)
\* validator monitor goroutines in Spec (one per configured validator)
MaxTasks == 2
\* validators of a configuration file in LoadSpec
MaxValidators == 2
\* entries of alerts.ignore-alerts in AlertSpec
MaxIgnoreAlerts == 3

(***************************************************************************)
(* Program constants.  The two uptime thresholds are float64 percentages;  *)
(* the model counts them in hundredths of a percent.                       *)
(***************************************************************************)
defaultSlashingPeriodUptimeWarningThreshold == 9980
defaultSlashingPeriodUptimeErrorThreshold == 9800
defaultRecentBlocksToCheck == 20
defaultNotifyEvery == 20
defaultRecentMissedBlocksNotifyThreshold == 10
defaultMissedBlocksGreenTo == 49
defaultMissedBlocksYellowFrom == 50
defaultMissedBlocksYellowTo == 99
defaultMissedBlocksRedFrom == 100

(***************************************************************************)
(* Values.  A Go pointer field is nil or points at a value; a YAML field   *)
(* of the file is absent, null or holds a scalar.                          *)
(***************************************************************************)
Nil == [set |-> FALSE, val |-> 0]
Ptr(v) == [set |-> TRUE, val |-> v]

Absent == [k |-> "absent", v |-> 0]
Null == [k |-> "null", v |-> 0]
Num(n) == [k |-> "num", v |-> n]
Map == [k |-> "map", v |-> 0]

\* Task t monitors validator t of the configuration; the goroutine of main
\* (LoadSpec) is the one task that monitors none.
Tasks == 1..MaxTasks
AllTasks == 0..MaxTasks
Main == CHOOSE t \in AllTasks : t \notin Tasks

\* The Discord message id the transport returns for validator t's status message.
MessageID(t) == 1000 + t

(***************************************************************************)
(* type ValidatorMonitor: the persisted handle, the five plain thresholds  *)
(* and the four optional band boundaries.                                  *)
(***************************************************************************)
ValidatorMonitor(id, warn, err, recent, every, missed, g, yf, yt, rf) ==
    [DiscordStatusMessageID |-> id,
     SlashingPeriodUptimeWarningThreshold |-> warn,
     SlashingPeriodUptimeErrorThreshold |-> err,
     RecentBlocksToCheck |-> recent,
     NotifyEvery |-> every,
     RecentMissedBlocksNotifyThreshold |-> missed,
     MissedBlocksGreenTo |-> g,
     MissedBlocksYellowFrom |-> yf,
     MissedBlocksYellowTo |-> yt,
     MissedBlocksRedFrom |-> rf]

\* type HalfLifeConfig: Notifications is a pointer (TRUE when non-nil).
HalfLifeConfig(notifications, validators) ==
    [Notifications |-> notifications, Validators |-> validators]

(***************************************************************************)
(* yaml.Marshal(config).  No field carries omitempty: every key is         *)
(* written, a nil pointer as null.  The document is a header chunk (the    *)
(* alerts and notifications keys) followed by one chunk per validator.     *)
(***************************************************************************)
MarshalPtr(p) == IF p.set THEN Num(p.val) ELSE Null

MarshalValidator(vm) ==
    [DiscordStatusMessageID |-> MarshalPtr(vm.DiscordStatusMessageID),
     SlashingPeriodUptimeWarningThreshold |-> Num(vm.SlashingPeriodUptimeWarningThreshold),
     SlashingPeriodUptimeErrorThreshold |-> Num(vm.SlashingPeriodUptimeErrorThreshold),
     RecentBlocksToCheck |-> Num(vm.RecentBlocksToCheck),
     NotifyEvery |-> Num(vm.NotifyEvery),
     RecentMissedBlocksNotifyThreshold |-> Num(vm.RecentMissedBlocksNotifyThreshold),
     MissedBlocksGreenTo |-> MarshalPtr(vm.MissedBlocksGreenTo),
     MissedBlocksYellowFrom |-> MarshalPtr(vm.MissedBlocksYellowFrom),
     MissedBlocksYellowTo |-> MarshalPtr(vm.MissedBlocksYellowTo),
     MissedBlocksRedFrom |-> MarshalPtr(vm.MissedBlocksRedFrom)]

\* A validator chunk none of whose keys is written.
EmptyRaw ==
    [DiscordStatusMessageID |-> Absent,
     SlashingPeriodUptimeWarningThreshold |-> Absent,
     SlashingPeriodUptimeErrorThreshold |-> Absent,
     RecentBlocksToCheck |-> Absent,
     NotifyEvery |-> Absent,
     RecentMissedBlocksNotifyThreshold |-> Absent,
     MissedBlocksGreenTo |-> Absent,
     MissedBlocksYellowFrom |-> Absent,
     MissedBlocksYellowTo |-> Absent,
     MissedBlocksRedFrom |-> Absent]

HeaderChunk(notifications) == [kind |-> "header", notifications |-> notifications, vm |-> EmptyRaw]
ValidatorChunk(raw) == [kind |-> "validator", notifications |-> Absent, vm |-> raw]

Marshal(c) ==
    <<HeaderChunk(IF c.Notifications THEN Map ELSE Null)>>
    \o [i \in 1..Len(c.Validators) |-> ValidatorChunk(MarshalValidator(c.Validators[i]))]

(***************************************************************************)
(* yaml.Unmarshal into a fresh HalfLifeConfig: an absent or null key       *)
(* leaves the zero value (0, nil), a scalar is stored, into a pointer      *)
(* field behind a fresh pointer.  An empty document gives the zero         *)
(* configuration.                                                          *)
(***************************************************************************)
UnmarshalPlain(tok) == IF tok.k = "num" THEN tok.v ELSE 0
UnmarshalPtr(tok) == IF tok.k = "num" THEN Ptr(tok.v) ELSE Nil

UnmarshalValidator(raw) ==
    ValidatorMonitor(UnmarshalPtr(raw.DiscordStatusMessageID),
                     UnmarshalPlain(raw.SlashingPeriodUptimeWarningThreshold),
                     UnmarshalPlain(raw.SlashingPeriodUptimeErrorThreshold),
                     UnmarshalPlain(raw.RecentBlocksToCheck),
                     UnmarshalPlain(raw.NotifyEvery),
                     UnmarshalPlain(raw.RecentMissedBlocksNotifyThreshold),
                     UnmarshalPtr(raw.MissedBlocksGreenTo),
                     UnmarshalPtr(raw.MissedBlocksYellowFrom),
                     UnmarshalPtr(raw.MissedBlocksYellowTo),
                     UnmarshalPtr(raw.MissedBlocksRedFrom))

Unmarshal(doc) ==
    IF Len(doc) = 0
    THEN HalfLifeConfig(FALSE, <<>>)
    ELSE HalfLifeConfig(doc[1].notifications.k = "map",
                        [i \in 1..(Len(doc) - 1) |-> UnmarshalValidator(doc[i + 1].vm)])

(***************************************************************************)
(* HalfLifeConfig.getUnsetDefaults, for one validator of the loop.         *)
(***************************************************************************)
\* A defaulting pass that takes a pointer to zero for an unset boundary.
DefaultValidatorZeroIsUnset(vm) ==
    [vm EXCEPT
       !.SlashingPeriodUptimeWarningThreshold =
           IF @ = 0 THEN defaultSlashingPeriodUptimeWarningThreshold ELSE @,
       !.SlashingPeriodUptimeErrorThreshold =
           IF @ = 0 THEN defaultSlashingPeriodUptimeErrorThreshold ELSE @,
       !.RecentBlocksToCheck = IF @ = 0 THEN defaultRecentBlocksToCheck ELSE @,
       !.NotifyEvery = IF @ = 0 THEN defaultNotifyEvery ELSE @,
       !.RecentMissedBlocksNotifyThreshold =
           IF @ = 0 THEN defaultRecentMissedBlocksNotifyThreshold ELSE @,
       !.MissedBlocksGreenTo = IF @.val = 0 THEN Ptr(defaultMissedBlocksGreenTo) ELSE @,
       !.MissedBlocksYellowFrom = IF @.val = 0 THEN Ptr(defaultMissedBlocksYellowFrom) ELSE @,
       !.MissedBlocksYellowTo = IF @.val = 0 THEN Ptr(defaultMissedBlocksYellowTo) ELSE @,
       !.MissedBlocksRedFrom = IF @.val = 0 THEN Ptr(defaultMissedBlocksRedFrom) ELSE @]

DefaultValidator(vm) ==
    [vm EXCEPT
       !.SlashingPeriodUptimeWarningThreshold =
           IF @ = 0 THEN defaultSlashingPeriodUptimeWarningThreshold ELSE @,
       !.SlashingPeriodUptimeErrorThreshold =
           IF @ = 0 THEN defaultSlashingPeriodUptimeErrorThreshold ELSE @,
       !.RecentBlocksToCheck = IF @ = 0 THEN defaultRecentBlocksToCheck ELSE @,
       !.NotifyEvery = IF @ = 0 THEN defaultNotifyEvery ELSE @,
       !.RecentMissedBlocksNotifyThreshold =
           IF @ = 0 THEN defaultRecentMissedBlocksNotifyThreshold ELSE @,
       !.MissedBlocksGreenTo = IF ~@.set THEN Ptr(defaultMissedBlocksGreenTo) ELSE @,
       !.MissedBlocksYellowFrom = IF ~@.set THEN Ptr(defaultMissedBlocksYellowFrom) ELSE @,
       !.MissedBlocksYellowTo = IF ~@.set THEN Ptr(defaultMissedBlocksYellowTo) ELSE @,
       !.MissedBlocksRedFrom = IF ~@.set THEN Ptr(defaultMissedBlocksRedFrom) ELSE @]

\* The loop over c.Validators, once the dereference of c.Notifications succeeded.
DefaultAll(c) ==
    [c EXCEPT !.Validators = [i \in 1..Len(c.Validators) |-> DefaultValidator(c.Validators[i])]]

\* The nine defaulted fields of every validator.
Effective(c) ==
    [i \in 1..Len(c.Validators) |->
        [c.Validators[i] EXCEPT !.DiscordStatusMessageID = Nil]]


(***************************************************************************)
(* saveConfig(configFile, config, writeConfigMutex), one step per          *)
(* statement that blocks or touches the file:                              *)
(*   call -> Lock -> locked -> Marshal -> marshaled -> WriteFile (open     *)
(*   with O_TRUNC, then write) -> unlock -> deferred Unlock -> returned    *)
(***************************************************************************)
InSaveConfig == {"locked", "marshaled", "opened", "unlock"}

\* A Lock that does not wait for the holder to unlock.
LockWithoutWaiting(t) ==
    /\ pc[t] = "call"
    /\ writeConfigMutex' = writeConfigMutex \cup {t}
    /\ pc' = [pc EXCEPT ![t] = "locked"]
    /\ published' = published \cup {t}
    /\ before' = [before EXCEPT ![t] = file]
    /\ UNCHANGED <<config, file, yamlBytes, printed, loadVars, alertVars>>

\* writeConfigMutex.Lock(): blocks while another goroutine holds the mutex.
\* The atomic operation that takes the mutex orders the caller's earlier
\* store of its handle before everything a later holder reads.
Lock(t) ==
    /\ pc[t] = "call"
    /\ writeConfigMutex = {}
    /\ writeConfigMutex' = {t}
    /\ pc' = [pc EXCEPT ![t] = "locked"]
    /\ published' = published \cup {t}
    /\ before' = [before EXCEPT ![t] = file]
    /\ UNCHANGED <<config, file, yamlBytes, printed, loadVars, alertVars>>

\* The validators whose handle was stored by a goroutine that has not been
\* through the mutex since, and that no holder of the mutex has seen yet:
\* Marshal's read of such a field is a data race on one word and returns
\* the old nil or the new pointer.
Racing(t) ==
    {u \in Tasks \ {t} : u \notin published /\ pc[u] \in {"call"} \cup InSaveConfig}

\* What Marshal reads of the shared configuration when its racing reads of
\* the validators in stale return the old nil.
View(stale) ==
    [config EXCEPT !.Validators =
        [i \in 1..Len(config.Validators) |->
            IF i \in stale
            THEN [config.Validators[i] EXCEPT !.DiscordStatusMessageID = Nil]
            ELSE config.Validators[i]]]

\* yamlBytes, err := yaml.Marshal(config); an error is printed and the
\* function goes on, with yamlBytes nil.
MarshalStep(t) ==
    /\ pc[t] = "locked"
    /\ \/ \E stale \in SUBSET Racing(t) :
            /\ yamlBytes' = [yamlBytes EXCEPT ![t] = Marshal(View(stale))]
            /\ published' = published \cup (Racing(t) \ stale)
            /\ printed' = printed
       \/ /\ yamlBytes' = [yamlBytes EXCEPT ![t] = <<>>]
          /\ published' = published
          /\ printed' = [printed EXCEPT ![t] = @ \cup {"marshal"}]
    /\ pc' = [pc EXCEPT ![t] = "marshaled"]
    /\ UNCHANGED <<config, file, writeConfigMutex, before, loadVars, alertVars>>

\* os.WriteFile, first half: OpenFile(name, O_WRONLY|O_CREATE|O_TRUNC).  It
\* truncates the file, or fails and leaves it alone.
WriteFileOpen(t) ==
    /\ pc[t] = "marshaled"
    /\ \/ /\ file' = <<>>
          /\ pc' = [pc EXCEPT ![t] = "opened"]
          /\ printed' = printed
       \/ /\ file' = file
          /\ pc' = [pc EXCEPT ![t] = "unlock"]
          /\ printed' = [printed EXCEPT ![t] = @ \cup {"write"}]
    /\ UNCHANGED <<config, writeConfigMutex, yamlBytes, published, before, loadVars, alertVars>>

\* The lengths a failed Write can leave behind.
ShortWrites(data) == IF Len(data) = 0 THEN {0} ELSE 0..(Len(data) - 1)

\* os.WriteFile, second half: f.Write(data) and Close.  All of data is
\* written, or the write fails after a part of it.
WriteFileWrite(t) ==
    /\ pc[t] = "opened"
    /\ \/ /\ file' = yamlBytes[t]
          /\ printed' = printed
       \/ /\ \E n \in ShortWrites(yamlBytes[t]) : file' = SubSeq(yamlBytes[t], 1, n)
          /\ printed' = [printed EXCEPT ![t] = @ \cup {"write"}]
    /\ pc' = [pc EXCEPT ![t] = "unlock"]
    /\ UNCHANGED <<config, writeConfigMutex, yamlBytes, published, before, loadVars, alertVars>>

\* An Unlock written as the last statement behind early returns on the two
\* errors, instead of deferred.
UnlockOnSuccessOnly(t) ==
    /\ pc[t] = "unlock"
    /\ writeConfigMutex' = IF printed[t] = {} THEN writeConfigMutex \ {t} ELSE writeConfigMutex
    /\ pc' = [pc EXCEPT ![t] = "returned"]
    /\ UNCHANGED <<config, file, yamlBytes, printed, published, before, loadVars, alertVars>>

\* defer writeConfigMutex.Unlock(), run as saveConfig returns.
Unlock(t) ==
    /\ pc[t] = "unlock"
    /\ writeConfigMutex' = writeConfigMutex \ {t}
    /\ pc' = [pc EXCEPT ![t] = "returned"]
    /\ UNCHANGED <<config, file, yamlBytes, printed, published, before, loadVars, alertVars>>

(***************************************************************************)
(* The monitor goroutine of validator t, as far as it touches the          *)
(* configuration: with no persisted handle it sends a new status message,  *)
(* stores the returned handle in its ValidatorMonitor and calls            *)
(* saveConfig; with a handle it edits the message in place.                *)
(***************************************************************************)
StoreHandle(t) ==
    /\ pc[t] = "idle"
    /\ ~config.Validators[t].DiscordStatusMessageID.set
    /\ config' = [config EXCEPT !.Validators[t].DiscordStatusMessageID = Ptr(MessageID(t))]
    /\ pc' = [pc EXCEPT ![t] = "call"]
    /\ UNCHANGED <<file, writeConfigMutex, yamlBytes, printed, published, before, loadVars, alertVars>>

EditMessage(t) ==
    /\ pc[t] = "idle"
    /\ config.Validators[t].DiscordStatusMessageID.set
    /\ pc' = [pc EXCEPT ![t] = "edited"]
    /\ UNCHANGED <<config, file, writeConfigMutex, yamlBytes, printed, published, before, loadVars, alertVars>>

\* A validator as loaded and defaulted, with or without a persisted handle.
LoadedValidator(id) ==
    DefaultValidator(UnmarshalValidator([EmptyRaw EXCEPT !.DiscordStatusMessageID = id]))

\* The values the variables of a state machine rest at while another runs.
SaveIdle ==
    /\ writeConfigMutex = {}
    /\ pc = [t \in AllTasks |-> "idle"]
    /\ yamlBytes = [t \in AllTasks |-> <<>>]
    /\ printed = [t \in AllTasks |-> {}]
    /\ before = [t \in AllTasks |-> <<>>]

LoadIdle ==
    /\ lPc = "off"
    /\ lEff = <<>>

AlertIdle ==
    /\ rawAlerts = <<>>
    /\ aPc = "off"
    /\ alertConfig = <<>>
    /\ atCall = [input |-> "", before |-> "", after |-> "", err |-> ""]
    /\ activeCall = [alert |-> "", result |-> TRUE, before |-> <<>>]

\* The monitors start after the configuration was loaded and defaulted; the
\* file holds what was loaded.  Any subset of the validators has a handle
\* persisted by an earlier run.
Init ==
    /\ \E had \in SUBSET Tasks :
          /\ config = HalfLifeConfig(TRUE,
                        [t \in Tasks |->
                            LoadedValidator(IF t \in had THEN Num(MessageID(t)) ELSE Absent)])
          /\ published = had
    /\ file = Marshal(config)
    /\ SaveIdle
    /\ LoadIdle
    /\ AlertIdle

Next ==
    \E t \in Tasks :
        \/ StoreHandle(t)
        \/ EditMessage(t)
        \/ Lock(t)
        \/ MarshalStep(t)
        \/ WriteFileOpen(t)
        \/ WriteFileWrite(t)
        \/ Unlock(t)

Spec == Init /\ [][Next]_vars

\* Every monitor goroutine keeps being scheduled, and sync.Mutex hands the
\* mutex to a goroutine that waits for it (its starvation mode).
Fairness ==
    \A t \in Tasks :
        /\ WF_vars(StoreHandle(t) \/ EditMessage(t))
        /\ SF_vars(Lock(t))
        /\ WF_vars(MarshalStep(t) \/ WriteFileOpen(t) \/ WriteFileWrite(t) \/ Unlock(t))

FairSpec == Spec /\ Fairness

(***************************************************************************)
(* Properties of saveConfig under concurrent callers.                      *)
(***************************************************************************)
HandleIn(doc, t) ==
    /\ Len(doc) > t
    /\ doc[t + 1].vm.DiscordStatusMessageID = Num(MessageID(t))

\* The complete serialisations of the configuration a save can write: what
\* Marshal reads of config, whatever its racing reads return.
Serialisations == {Marshal(View(stale)) : stale \in SUBSET Tasks}

\* C1: at most one task at a time is between Lock and Unlock of saveConfig,
\* and it is the holder of the mutex; so no two writes of the file overlap.
MutualExclusion ==
    \A t, u \in AllTasks :
        pc[t] \in InSaveConfig /\ pc[u] \in InSaveConfig => t = u /\ writeConfigMutex = {t}

\* C1 witness: one task is in the middle of its write (the file truncated)
\* while another has called saveConfig and waits for the mutex.
WriterAndWaiter ==
    \E t, u \in Tasks : t # u /\ pc[t] = "opened" /\ pc[u] = "call" /\ writeConfigMutex = {t}

\* C2: no lost update.  Once every task's saveConfig has returned the file
\* holds the handle of every validator, and no save leaves the file without
\* a handle of another validator that the file held when the save began.
NoLostUpdate ==
    /\ (\A t \in Tasks : pc[t] \in {"returned", "edited"}) => \A t \in Tasks : HandleIn(file, t)
    /\ \A t \in Tasks :
          pc[t] = "unlock" =>
              \A u \in Tasks \ {t} : HandleIn(before[t], u) => HandleIn(file, u)

\* What C2 comes to while no save has printed an error.
NoLostUpdateWhileSavesSucceed ==
    (\A t \in Tasks : printed[t] = {}) => NoLostUpdate

\* C8: a save is atomic.  When saveConfig has finished with the file, the
\* file holds a complete serialisation of the configuration or what it held
\* when the save began.
AtomicWrite ==
    \A t \in Tasks :
        pc[t] = "unlock" => file \in Serialisations \/ file = before[t]

\* C9: saveConfig has released the mutex whenever it has returned, and under
\* fair scheduling every task that calls saveConfig returns from it, whether
\* or not another task's save failed.
SaveConfigReturns ==
    /\ [](\A t \in Tasks : pc[t] = "returned" => t \notin writeConfigMutex)
    /\ \A t \in Tasks : (pc[t] = "call") ~> (pc[t] = "returned")

\* C9 witness: a task's save failed and printed its error, and a task that
\* took the mutex after it has returned from its own, successful save.
ReturnedAfterFailedSave ==
    \E t, u \in Tasks :
        /\ t # u
        /\ pc[t] = "returned" /\ printed[t] # {}
        /\ pc[u] = "returned" /\ printed[u] = {}
        /\ ~HandleIn(before[u], u) /\ HandleIn(file, u) /\ HandleIn(file, t)

(***************************************************************************)
(* LoadSpec: the goroutine of main loads the file, applies the defaults,   *)
(* saves with saveConfig, loads the saved file and applies the defaults    *)
(* again.                                                                  *)
(***************************************************************************)
PlainFields ==
    {"SlashingPeriodUptimeWarningThreshold", "SlashingPeriodUptimeErrorThreshold",
     "RecentBlocksToCheck", "NotifyEvery", "RecentMissedBlocksNotifyThreshold"}

PointerFields ==
    {"MissedBlocksGreenTo", "MissedBlocksYellowFrom", "MissedBlocksYellowTo",
     "MissedBlocksRedFrom"}

DefaultedFields == PlainFields \cup PointerFields

\* A validator of the file that writes the four band boundaries and the
\* window so that the bands tile [0, window].
TiledRaw ==
    [EmptyRaw EXCEPT !.RecentBlocksToCheck = Num(30),
                     !.MissedBlocksGreenTo = Num(9),
                     !.MissedBlocksYellowFrom = Num(10),
                     !.MissedBlocksYellowTo = Num(19),
                     !.MissedBlocksRedFrom = Num(20)]

\* The validators a file is written with: no key; one of the nine keys,
\* as null, as zero or as a non-zero number; all nine keys alike; the green
\* boundary alone, moved; tiling bands.
RawValidators ==
    {EmptyRaw, TiledRaw}
    \cup {[EmptyRaw EXCEPT ![f] = tok] : f \in DefaultedFields, tok \in {Null, Num(0), Num(7)}}
    \cup {[f \in DOMAIN EmptyRaw |-> IF f \in DefaultedFields THEN tok ELSE Absent] :
             tok \in {Null, Num(0), Num(7)}}

\* The validators that follow the first one of a file.
MoreRawValidators == {EmptyRaw, TiledRaw, [EmptyRaw EXCEPT !.MissedBlocksGreenTo = Num(0)]}

RawValidatorLists ==
    {<<>>}
    \cup UNION {{<<first>> \o rest : first \in RawValidators, rest \in [1..n -> MoreRawValidators]} :
                  n \in 0..(MaxValidators - 1)}

LoadInit ==
    /\ \E notifications \in {Map, Null, Absent}, validators \in RawValidatorLists :
          file = <<HeaderChunk(notifications)>>
                 \o [i \in 1..Len(validators) |-> ValidatorChunk(validators[i])]
    /\ config = HalfLifeConfig(FALSE, <<>>)
    /\ published = {}
    /\ SaveIdle
    /\ lPc = "start"
    /\ lEff = <<>>
    /\ AlertIdle

\* yaml.Unmarshal of the file into a fresh configuration, at start and
\* after the save.
Load ==
    /\ lPc \in {"start", "saved"}
    /\ config' = Unmarshal(file)
    /\ lPc' = IF lPc = "start" THEN "loaded" ELSE "reloaded"
    /\ UNCHANGED <<file, writeConfigMutex, pc, yamlBytes, printed, published, before, lEff, alertVars>>

\* c.getUnsetDefaults(): its first statement prints *c.Notifications, a nil
\* pointer dereference when the file has no notifications section; then
\* the loop over the validators.
GetUnsetDefaults ==
    /\ lPc \in {"loaded", "reloaded"}
    /\ IF ~config.Notifications
       THEN /\ lPc' = IF lPc = "loaded" THEN "panic" ELSE "panic again"
            /\ UNCHANGED <<config, lEff>>
       ELSE /\ config' = DefaultAll(config)
            /\ lPc' = IF lPc = "loaded" THEN "defaulted" ELSE "redefaulted"
            /\ lEff' = IF lPc = "loaded" THEN Effective(config') ELSE lEff
    /\ UNCHANGED <<file, writeConfigMutex, pc, yamlBytes, printed, published, before, alertVars>>

\* saveConfig(configFilePath, &config, &mutex) called by main.
CallSaveConfig ==
    /\ lPc = "defaulted"
    /\ lPc' = "saving"
    /\ pc' = [pc EXCEPT ![Main] = "call"]
    /\ UNCHANGED <<config, file, writeConfigMutex, yamlBytes, printed, published, before, lEff, alertVars>>

SaveConfigReturned ==
    /\ lPc = "saving"
    /\ pc[Main] = "returned"
    /\ lPc' = "saved"
    /\ UNCHANGED <<saveVars, lEff, alertVars>>

LoadNext ==
    \/ Load
    \/ GetUnsetDefaults
    \/ CallSaveConfig
    \/ Lock(Main)
    \/ MarshalStep(Main)
    \/ WriteFileOpen(Main)
    \/ WriteFileWrite(Main)
    \/ Unlock(Main)
    \/ SaveConfigReturned

LoadSpec == LoadInit /\ [][LoadNext]_vars

(***************************************************************************)
(* Properties of getUnsetDefaults.                                         *)
(***************************************************************************)
\* The validators of the file main loaded at start.  The file is not
\* written before the save.
FirstPass == lPc \in {"loaded", "defaulted", "panic"}
RawOf(i) == file[i + 1].vm

\* C5 as claimed: after the defaulting pass every one of the nine fields
\* that the file sets to a number, zero included, holds that number, and a
\* field the file does not set holds its default.
KeepsEveryExplicitValue ==
    lPc = "defaulted" =>
        \A i \in 1..Len(config.Validators) :
            /\ \A f \in PlainFields :
                  RawOf(i)[f].k = "num" => config.Validators[i][f] = RawOf(i)[f].v
            /\ \A f \in PointerFields :
                  RawOf(i)[f].k = "num" => config.Validators[i][f] = Ptr(RawOf(i)[f].v)

DefaultOf(f) ==
    CASE f = "SlashingPeriodUptimeWarningThreshold" -> 9980
      [] f = "SlashingPeriodUptimeErrorThreshold" -> 9800
      [] f = "RecentBlocksToCheck" -> 20
      [] f = "NotifyEvery" -> 20
      [] f = "RecentMissedBlocksNotifyThreshold" -> 10
      [] f = "MissedBlocksGreenTo" -> 49
      [] f = "MissedBlocksYellowFrom" -> 50
      [] f = "MissedBlocksYellowTo" -> 99
      [] f = "MissedBlocksRedFrom" -> 100

\* C5 as amended: a band boundary (an optional pointer) is given its
\* default exactly when the file has no number for it and keeps a number
\* the file sets, zero included; a plain threshold is given its default
\* exactly when the loaded value is zero (the key absent, null or written
\* as 0) and keeps a non-zero number.  Until the pass has run, and when it
\* faults, every field holds what was loaded.
DefaultsFillUnsetOnly ==
    FirstPass =>
        \A i \in 1..Len(config.Validators) :
            /\ \A f \in PointerFields :
                  config.Validators[i][f] =
                      IF RawOf(i)[f].k = "num" THEN Ptr(RawOf(i)[f].v)
                      ELSE IF lPc = "defaulted" THEN Ptr(DefaultOf(f)) ELSE Nil
            /\ \A f \in PlainFields :
                  config.Validators[i][f] =
                      IF RawOf(i)[f].k = "num" /\ RawOf(i)[f].v # 0 THEN RawOf(i)[f].v
                      ELSE IF lPc = "defaulted" THEN DefaultOf(f) ELSE 0

\* C5 witness: the pass has run over a validator whose green boundary the
\* file sets to zero and whose other boundaries it leaves out: the zero is
\* kept and the others hold their defaults.
ExplicitZeroBoundaryKept ==
    /\ lPc = "defaulted"
    /\ \E i \in 1..Len(config.Validators) :
          /\ RawOf(i).MissedBlocksGreenTo = Num(0)
          /\ RawOf(i).MissedBlocksYellowFrom = Absent
          /\ config.Validators[i].MissedBlocksGreenTo = Ptr(0)
          /\ config.Validators[i].MissedBlocksYellowFrom = Ptr(50)

\* C6: loaded, defaulted, saved, reloaded and defaulted again, the
\* configuration has for every validator the thresholds and boundaries it
\* had after the first pass; and a second pass right after the first
\* changes nothing.
RoundTripIdempotent ==
    /\ lPc = "defaulted" => DefaultAll(config) = config
    /\ lPc = "redefaulted" => Effective(config) = lEff
    /\ lPc # "panic again"

\* What C6 comes to when the save printed no error.
RoundTripIdempotentAfterGoodSave ==
    printed[Main] = {} => RoundTripIdempotent

\* C7: after the defaulting pass the bands of every validator tile
\* [0, RecentBlocksToCheck].
BandsTileWindow ==
    lPc = "defaulted" =>
        \A i \in 1..Len(config.Validators) :
            LET vm == config.Validators[i]
            IN  /\ 0 <= vm.MissedBlocksGreenTo.val
                /\ vm.MissedBlocksYellowFrom.val = vm.MissedBlocksGreenTo.val + 1
                /\ vm.MissedBlocksYellowFrom.val <= vm.MissedBlocksYellowTo.val
                /\ vm.MissedBlocksRedFrom.val = vm.MissedBlocksYellowTo.val + 1
                /\ vm.MissedBlocksRedFrom.val <= vm.RecentBlocksToCheck

\* C10: getUnsetDefaults does not fault on a loaded configuration, and when
\* it has run every validator has non-zero thresholds and non-nil boundaries.
DefaultsNeverFault ==
    /\ lPc # "panic"
    /\ lPc = "defaulted" =>
          \A i \in 1..Len(config.Validators) :
              /\ \A f \in PlainFields : config.Validators[i][f] # 0
              /\ \A f \in PointerFields : config.Validators[i][f].set

(***************************************************************************)
(* AlertSpec: yaml decodes alerts.ignore-alerts, calling                   *)
(* AlertType.UnmarshalYAML for every entry, and the monitors then ask      *)
(* AlertConfig.AlertActive.                                                *)
(***************************************************************************)
\* var alertTypes, with the values of the eight constants.
alertTypes ==
    <<"alertTypeJailed", "alertTypeTombstoned", "alertTypeOutOfSync", "alertTypeBlockFetch",
      "alertTypeMissedRecentBlocks", "alertTypeGenericRPC", "alertTypeHalt",
      "alertTypeSlashingSLA">>

\* An UnmarshalYAML that stores the string before it knows it is declared.
RECURSIVE ScanAssignFirst(_, _, _, _)
ScanAssignFirst(i, alertType, found, at) ==
    IF i > Len(alertTypes)
    THEN [found |-> found, at |-> alertType]
    ELSE ScanAssignFirst(i + 1, alertType, found \/ alertTypes[i] = alertType, at)

\* The loop of UnmarshalYAML over alertTypes, from index i: found and *at
\* are set on every equal element.
RECURSIVE ScanAlertTypes(_, _, _, _)
ScanAlertTypes(i, alertType, found, at) ==
    IF i > Len(alertTypes)
    THEN [found |-> found, at |-> at]
    ELSE IF alertTypes[i] = alertType
         THEN ScanAlertTypes(i + 1, alertType, TRUE, alertType)
         ELSE ScanAlertTypes(i + 1, alertType, found, at)

\* (at *AlertType).UnmarshalYAML on a node that decodes to the string
\* alertType: the target afterwards and the error returned ("" for nil).
UnmarshalYAML(at, alertType) ==
    LET r == ScanAlertTypes(1, alertType, FALSE, at)
    IN  [at |-> r.at, err |-> IF ~r.found THEN "Invalid AlertType" ELSE ""]

\* An AlertActive that looks at the first entry only.
RECURSIVE AlertActiveFirstOnly(_, _, _)
AlertActiveFirstOnly(IgnoreAlerts, i, alert) ==
    IF i > Len(IgnoreAlerts) \/ i > 1
    THEN TRUE
    ELSE IgnoreAlerts[i] # alert

\* (at *AlertConfig).AlertActive(alert), the loop from index i: false at
\* the first entry equal to alert, true when the list is exhausted.
RECURSIVE AlertActive(_, _, _)
AlertActive(IgnoreAlerts, i, alert) ==
    IF i > Len(IgnoreAlerts)
    THEN TRUE
    ELSE IF IgnoreAlerts[i] = alert
         THEN FALSE
         ELSE AlertActive(IgnoreAlerts, i + 1, alert)

\* The strings a file may list: the declared names, and strings that are
\* close to one (the label without its prefix, other case, a space, a
\* prefix of a name, the empty string).
AlertStrings ==
    {alertTypes[i] : i \in 1..Len(alertTypes)}
    \cup {"", "jailed", "halt", "alerttypejailed", "AlertTypeJailed", "alertTypeJailed ",
          "alertType", "alertTypeSlashing"}

AlertInit ==
    /\ rawAlerts \in UNION {[1..n -> AlertStrings] : n \in 0..MaxIgnoreAlerts}
    /\ aPc = "decoding"
    /\ alertConfig = <<>>
    /\ atCall = [input |-> "", before |-> "", after |-> "", err |-> ""]
    /\ activeCall = [alert |-> "", result |-> TRUE, before |-> <<>>]
    /\ config = HalfLifeConfig(FALSE, <<>>)
    /\ file = <<>>
    /\ published = {}
    /\ SaveIdle
    /\ LoadIdle

\* yaml decodes the next entry of ignore-alerts into a fresh *AlertType; an
\* error of UnmarshalYAML fails the load.
DecodeAlertType ==
    /\ aPc = "decoding"
    /\ Len(alertConfig) < Len(rawAlerts)
    /\ LET alertType == rawAlerts[Len(alertConfig) + 1]
           r == UnmarshalYAML("", alertType)
       IN  /\ atCall' = [input |-> alertType, before |-> "", after |-> r.at, err |-> r.err]
           /\ IF r.err = ""
              THEN alertConfig' = Append(alertConfig, r.at) /\ aPc' = aPc
              ELSE alertConfig' = alertConfig /\ aPc' = "failed"
    /\ UNCHANGED <<rawAlerts, activeCall, saveVars, loadVars>>

DecodeDone ==
    /\ aPc = "decoding"
    /\ Len(alertConfig) = Len(rawAlerts)
    /\ aPc' = "loaded"
    /\ UNCHANGED <<rawAlerts, alertConfig, atCall, activeCall, saveVars, loadVars>>

\* A monitor asks whether alert is active.
AskAlertActive ==
    /\ aPc = "loaded"
    /\ \E i \in 1..Len(alertTypes) :
          activeCall' = [alert |-> alertTypes[i],
                         result |-> AlertActive(alertConfig, 1, alertTypes[i]),
                         before |-> alertConfig]
    /\ UNCHANGED <<rawAlerts, aPc, alertConfig, atCall, saveVars, loadVars>>

AlertNext ==
    \/ DecodeAlertType
    \/ DecodeDone
    \/ AskAlertActive

AlertSpec == AlertInit /\ [][AlertNext]_vars

(***************************************************************************)
(* Properties of the alert types.                                          *)
(***************************************************************************)
DeclaredNames ==
    {"alertTypeJailed", "alertTypeTombstoned", "alertTypeOutOfSync", "alertTypeBlockFetch",
     "alertTypeMissedRecentBlocks", "alertTypeGenericRPC", "alertTypeHalt",
     "alertTypeSlashingSLA"}

\* C3: UnmarshalYAML accepts a string exactly when it is one of the eight
\* declared names; the target then holds it; any other string gets the
\* error Invalid AlertType, the target is left as it was and the load fails.
ClosedAlertTypes ==
    atCall.input # "" \/ atCall.err # "" =>
        /\ atCall.err = "" <=> atCall.input \in DeclaredNames
        /\ atCall.err = "" => atCall.after = atCall.input
        /\ atCall.err # "" =>
              /\ atCall.err = "Invalid AlertType"
              /\ atCall.after = atCall.before
              /\ aPc = "failed"
        /\ \A i \in 1..Len(alertConfig) : alertConfig[i] \in DeclaredNames

\* C3 witness: a load that accepted a declared name and then failed on a
\* string that differs from a declared name by its case only.
RejectedAfterAccepted ==
    /\ aPc = "failed"
    /\ Len(alertConfig) > 0
    /\ atCall.input = "alerttypejailed"
    /\ atCall.err = "Invalid AlertType"

====
